---------------------------- MODULE Spec2Model ----------------------------
(***************************************************************************)
(* Flowbit-Builder: the chatbot flow canvas (FlowBuilder.tsx), its page    *)
(* (Builder.tsx), the flow validator (validation.ts) and the structured    *)
(* export (exportFlow.ts), as a state machine over the graph of nodes and  *)
(* edges.                                                                  *)
(***************************************************************************)
EXTENDS Integers, Sequences, FiniteSets, TLC

(***************************************************************************)
(* Bounds of the model.                                                    *)
(***************************************************************************)
\* nodes on the canvas at one time
MaxNodes == 3
\* largest value the module-level nodeIdCounter is allowed to hand out
MaxNodeId == 2
\* edges on the canvas at one time
MaxEdges == 2
\* image exports waiting for the rasterizer at one time
MaxExports == 2
\* largest canvas coordinate read back from an exported document
MaxCoordinate == 200
\* dismiss timers pending in the browser at one time, for one page and for the pages left
MaxTimers == 2

(***************************************************************************)
(* Values.                                                                 *)
(***************************************************************************)
\* null: a value that no id and no result equals
Null == "<null>"

\* `node_${n}`
NodeIdOf(n) == "node_" \o ToString(n)

\* NODE_TYPES_CONFIG: the type strings the palette puts in the drag payload
NodeTypes == {"textNode"}

\* what dataTransfer.getData returns: a palette type, or '' for a foreign drag
DropPayloads == NodeTypes \cup {""}

\* where screenToFlowPosition puts a dropped node
DropPosition == [x |-> 15, y |-> 30]

\* message texts typed in the settings panel
Texts == {"hi"}

\* TextNode's handles
SourceHandle == "source"
TargetHandle == "target"

\* initialNodes
initialNodes ==
  << [id |-> "node_0", type |-> "textNode",
      position |-> [x |-> 180, y |-> 180],
      data |-> [text |-> "Hello! How can I help you today?"]] >>

\* initialEdges
initialEdges == << >>

INITIAL_NODE_COUNT == 1

(***************************************************************************)
(* Helpers on sequences.                                                   *)
(***************************************************************************)
Range(s) == {s[i] : i \in 1..Len(s)}

\* Array.prototype.filter
Filter(s, keep(_)) == SelectSeq(s, keep)

\* Array.prototype.map
Map(s, f(_)) == [i \in 1..Len(s) |-> f(s[i])]

NodeIds(nds) == {nds[i].id : i \in 1..Len(nds)}

(***************************************************************************)
(* The state.                                                              *)
(***************************************************************************)
VARIABLES
  mounted,          \* the /builder route is shown (Builder and FlowBuilder exist)
  nodes,            \* FlowBuilder: useNodesState
  edges,            \* FlowBuilder: useEdgesState
  nodeIdCounter,    \* FlowBuilder.tsx module-level counter
  cbEdges,          \* the `edges` the current isValidConnection callback closes over
  getFlowDataFn,    \* Builder: getFlowDataFn.current, the snapshot its getter closes over
  selectedNodeId,   \* Builder
  selectedNodeText, \* Builder
  nodeCount,        \* Builder
  notification,     \* Builder
  notifTimerRef,    \* Builder: notifTimerRef.current, the handle setTimeout returned, 0 for null
  timers,           \* the browser's pending dismiss timers of this page
  isOpen,           \* ExportMenu: the dropdown is shown
  imageLoading,     \* ExportMenu: an image export is in progress
  pendingExports,   \* exportFlowAsImage calls of this page waiting for toPng
  abandonedExports, \* exportFlowAsImage calls of pages left since, waiting for toPng
  abandonedTimers,  \* the browser's pending dismiss timers of pages left since
  lastOp,           \* history: the gesture that led to this state
  counterAtMount,   \* history: nodeIdCounter when this canvas was created
  assignedIds,      \* history: every id a node was ever created with
  fnPc,             \* function harness: "call" before the call, "done" after
  fnNodes,          \* function harness: the nodes argument
  fnEdges,          \* function harness: the edges argument
  fnConn,           \* function harness: the connection argument
  fnDate,           \* function harness: what new Date() returns
  fnOut,            \* function harness: the value returned
  fnPrev,           \* function harness: the value an earlier call returned
  fnEnv,            \* function harness: what the function's collaborators will do
  fnDownload,       \* function harness: the file handed to the browser
  fnArgs            \* function harness: the scalar arguments

canvasVars == <<mounted, nodes, edges, nodeIdCounter, cbEdges, getFlowDataFn>>
pageVars == <<selectedNodeId, selectedNodeText, nodeCount, notification, notifTimerRef, timers>>
historyVars == <<lastOp, counterAtMount, assignedIds>>
menuVars == <<isOpen, imageLoading, pendingExports, abandonedExports, abandonedTimers>>
fnVars == <<fnPc, fnNodes, fnEdges, fnConn, fnDate, fnOut, fnPrev, fnEnv, fnDownload, fnArgs>>

vars == <<canvasVars, pageVars, menuVars, historyVars, fnVars>>

(***************************************************************************)
(* validation.ts                                                           *)
(***************************************************************************)
MsgSaved == "Flow saved successfully!"
MsgTooManyRoots == "Cannot save flow: More than one node has empty target handles."

\* validateFlow collecting the edges' sources instead of their targets
validateFlowBySource(nds, eds) ==
  IF Len(nds) <= 1
  THEN [valid |-> TRUE, message |-> MsgSaved]
  ELSE LET nodesWithOutgoing == Range(Map(eds, LAMBDA e : e.source))
           nodesWithoutOutgoing ==
             Filter(nds, LAMBDA node : node.id \notin nodesWithOutgoing)
       IN  IF Len(nodesWithoutOutgoing) > 1
           THEN [valid |-> FALSE, message |-> MsgTooManyRoots]
           ELSE [valid |-> TRUE, message |-> MsgSaved]

\* validateFlow without the early return, refusing any node without incoming edge
validateFlowNoRootAllowed(nds, eds) ==
  LET nodesWithIncoming == Range(Map(eds, LAMBDA e : e.target))
      nodesWithoutIncoming ==
        Filter(nds, LAMBDA node : node.id \notin nodesWithIncoming)
  IN  IF Len(nodesWithoutIncoming) > 0
      THEN [valid |-> FALSE, message |-> MsgTooManyRoots]
      ELSE [valid |-> TRUE, message |-> MsgSaved]

validateFlow(nds, eds) ==
  IF Len(nds) <= 1
  THEN [valid |-> TRUE, message |-> MsgSaved]
  ELSE LET nodesWithIncoming == Range(Map(eds, LAMBDA e : e.target))
           nodesWithoutIncoming ==
             Filter(nds, LAMBDA node : node.id \notin nodesWithIncoming)
       IN  IF Len(nodesWithoutIncoming) > 1
           THEN [valid |-> FALSE, message |-> MsgTooManyRoots]
           ELSE [valid |-> TRUE, message |-> MsgSaved]

\* the arguments after a validateFlow whose filter removed, from the nodes array
\* itself, the nodes that have an incoming edge
validateFlowArgumentsFiltered(nds, eds) ==
  [nodes |-> Filter(nds, LAMBDA node : node.id \notin Range(Map(eds, LAMBDA e : e.target))),
   edges |-> eds]

\* validateFlow: its arguments after the call; edges.map, new Set and
\* nodes.filter build new values and leave the arrays as they were
validateFlowArguments(nds, eds) == [nodes |-> nds, edges |-> eds]

(***************************************************************************)
(* exportFlow.ts                                                           *)
(***************************************************************************)
\* JSON values: what an object literal, an array, a string, a number, a boolean is
JString(str) == [kind |-> "string", value |-> str]
JNumber(n) == [kind |-> "number", value |-> n]
JBoolean(b) == [kind |-> "boolean", value |-> b]
JArray(items) == [kind |-> "array", items |-> items]
Member(k, v) == [key |-> k, value |-> v]
JObject(members) == [kind |-> "object", members |-> members]

\* JSON.stringify(value, null, 2): the indentation step
JsonIndent == 2

\* a string as a JSON literal
Quote(str) == "\"" \o str \o "\""

\* one line of the text: its leading spaces and its tokens
Line(ind, toks) == [indent |-> ind, tokens |-> toks]

\* the lines ls with the tokens toks put before the first one's
WithPrefix(toks, ls) ==
  [ls EXCEPT ![1] = Line(ls[1].indent, toks \o ls[1].tokens)]

\* the lines ls with the token tok put after the last one's
WithSuffix(ls, tok) ==
  [ls EXCEPT ![Len(ls)] = Line(ls[Len(ls)].indent, Append(ls[Len(ls)].tokens, tok))]

RECURSIVE stringifyValue(_, _)
RECURSIVE stringifyParts(_, _)

\* JSON.stringify's lines for v, the first of them at indentation ind
stringifyValue(v, ind) ==
  CASE v.kind = "string" -> << Line(ind, <<Quote(v.value)>>) >>
    [] v.kind = "number" -> << Line(ind, <<ToString(v.value)>>) >>
    [] v.kind = "boolean" -> << Line(ind, <<IF v.value THEN "true" ELSE "false">>) >>
    [] v.kind = "array" ->
         IF v.items = << >>
         THEN << Line(ind, <<"[", "]">>) >>
         ELSE << Line(ind, <<"[">>) >>
              \o stringifyParts([i \in 1..Len(v.items) |->
                                   [prefix |-> << >>, value |-> v.items[i]]],
                                ind + JsonIndent)
              \o << Line(ind, <<"]">>) >>
    [] v.kind = "object" ->
         IF v.members = << >>
         THEN << Line(ind, <<"{", "}">>) >>
         ELSE << Line(ind, <<"{">>) >>
              \o stringifyParts([i \in 1..Len(v.members) |->
                                   [prefix |-> <<Quote(v.members[i].key), ":">>,
                                    value |-> v.members[i].value]],
                                ind + JsonIndent)
              \o << Line(ind, <<"}">>) >>

\* the members or items of a container, one after the other, separated by commas
stringifyParts(parts, ind) ==
  IF parts = << >>
  THEN << >>
  ELSE LET own == WithPrefix(Head(parts).prefix, stringifyValue(Head(parts).value, ind))
       IN  (IF Len(parts) > 1 THEN WithSuffix(own, ",") ELSE own)
           \o stringifyParts(Tail(parts), ind)

\* JSON.stringify(value, null, 2)
JSON_stringify(v) == stringifyValue(v, 0)

\* a String(n) that is not padded
padStartNone(str) == str

\* getTodayString: String(n).padStart(2, '0')
padStart2(str) == IF Len(str) >= 2 THEN str ELSE "0" \o str

\* getTodayString, for the Date d (month as getMonth() gives it, from 0)
getTodayString(d) ==
  ToString(d.year) \o "-" \o padStart2(ToString(d.month + 1))
                   \o "-" \o padStart2(ToString(d.date))

\* the node entry that copies every field of the node: { ...node }
cleanNodeSpread(node) ==
  JObject(<< Member("id", JString(node.id)),
             Member("type", JString(node.type)),
             Member("position", JObject(<< Member("x", JNumber(node.position.x)),
                                           Member("y", JNumber(node.position.y)) >>)),
             Member("data", JObject(<< Member("text", JString(node.data.text)) >>)),
             Member("selected", JBoolean(node.selected)),
             Member("dragging", JBoolean(node.dragging)) >>)

\* exportFlowAsJSON: the entry of cleanNodes for node
cleanNode(node) ==
  JObject(<< Member("id", JString(node.id)),
             Member("type", JString(node.type)),
             Member("position", JObject(<< Member("x", JNumber(node.position.x)),
                                           Member("y", JNumber(node.position.y)) >>)),
             Member("data", JObject(<< Member("text", JString(node.data.text)) >>)) >>)

\* exportFlowAsJSON: the entry of cleanEdges for edge
cleanEdge(edge) ==
  JObject(<< Member("id", JString(edge.id)),
             Member("source", JString(edge.source)),
             Member("target", JString(edge.target)) >>)

\* exportFlowAsJSON: flowData
flowData(nds, eds) ==
  JObject(<< Member("nodes", JArray(Map(nds, cleanNode))),
             Member("edges", JArray(Map(eds, cleanEdge))) >>)

\* an export that names its file flow-export-<date>.json
exportFlowAsJSONFlowExport(nds, eds, d) ==
  [content |-> JSON_stringify(flowData(nds, eds)),
   filename |-> "flow-export-" \o getTodayString(d) \o ".json",
   mimeType |-> "application/json"]

\* exportFlowAsJSON: what it hands to triggerDownload on the day d
exportFlowAsJSON(nds, eds, d) ==
  [content |-> JSON_stringify(flowData(nds, eds)),
   filename |-> "chatbot-flow-" \o getTodayString(d) \o ".json",
   mimeType |-> "application/json"]

(***************************************************************************)
(* exportImage.ts                                                          *)
(***************************************************************************)
MsgNoCanvas == "Could not find the flow canvas element."
MsgUnknownImageError == "Unknown error during image export."
ImageFileName == "chatbot-flow.png"

\* what a collaborator does when called: it returns v, throws an Error with
\* the message msg, or throws a value that is no Error
Returns(v) == [kind |-> "returns", value |-> v]
ThrowsError(msg) == [kind |-> "error", value |-> msg]
ThrowsValue(v) == [kind |-> "thrown", value |-> v]

\* how a promise settles
Fulfilled(v) == [state |-> "fulfilled", value |-> v]
Rejected(outcome) == [state |-> "rejected", value |-> outcome.value]

\* exportFlowAsImage: the catch block, for what was thrown
catchImageError(outcome) ==
  [success |-> FALSE,
   error |-> IF outcome.kind = "error" THEN outcome.value ELSE MsgUnknownImageError]

\* exportFlowAsImage without its try/catch
exportFlowAsImageNoCatch(env) ==
  IF ~env.element
  THEN Fulfilled([success |-> FALSE, error |-> MsgNoCanvas])
  ELSE IF env.toPng.kind # "returns" THEN Rejected(env.toPng)
  ELSE IF env.download.kind # "returns" THEN Rejected(env.download)
  ELSE Fulfilled([success |-> TRUE])

\* exportFlowAsImage: how the promise it returns settles, given what
\* document.querySelector, toPng and the download step do
exportFlowAsImage(env) ==
  IF ~env.element
  THEN Fulfilled([success |-> FALSE, error |-> MsgNoCanvas])
  ELSE IF env.toPng.kind # "returns" THEN Fulfilled(catchImageError(env.toPng))
  ELSE IF env.download.kind # "returns" THEN Fulfilled(catchImageError(env.download))
  ELSE Fulfilled([success |-> TRUE])

\* exportFlowAsImage: the file the link's click hands to the browser, if any
imageDownload(env) ==
  IF env.element /\ env.toPng.kind = "returns" /\ env.download.clicked
  THEN [filename |-> ImageFileName, href |-> env.toPng.value]
  ELSE Null

(***************************************************************************)
(* FlowBuilder.tsx: the canvas                                             *)
(***************************************************************************)
\* generateNodeId: the id the counter value c yields
generateNodeId(c) == NodeIdOf(c)

\* the counter reset with every new canvas
nodeIdCounterPerCanvas(c) == 1

\* `let nodeIdCounter = 1` is module-level: creating the component again keeps c
nodeIdCounterOnMount(c) == c

\* the Connection object React Flow proposes for a drag between two TextNodes
Connection(s, t) ==
  [source |-> s, sourceHandle |-> SourceHandle,
   target |-> t, targetHandle |-> TargetHandle]

\* isValidConnection without its self-loop rule
isValidConnectionNoSelfLoopRule(connection, eds) ==
  ~\E i \in 1..Len(eds) :
      /\ eds[i].source = connection.source
      /\ eds[i].sourceHandle = connection.sourceHandle

\* isValidConnection comparing the source node only, not the handle
isValidConnectionAnyHandle(connection, eds) ==
  IF connection.source = connection.target
  THEN FALSE
  ELSE ~\E i \in 1..Len(eds) : eds[i].source = connection.source

\* an admission check that also rejects a connection closing a two-node cycle
isValidConnectionNoBackEdge(connection, eds) ==
  IF connection.source = connection.target
  THEN FALSE
  ELSE /\ ~\E i \in 1..Len(eds) :
             /\ eds[i].source = connection.source
             /\ eds[i].sourceHandle = connection.sourceHandle
       /\ ~\E i \in 1..Len(eds) :
             /\ eds[i].source = connection.target
             /\ eds[i].target = connection.source

\* isValidConnection, over the edges its closure holds
isValidConnection(connection, eds) ==
  IF connection.source = connection.target
  THEN FALSE
  ELSE LET sourceAlreadyConnected ==
             \E i \in 1..Len(eds) :
                /\ eds[i].source = connection.source
                /\ eds[i].sourceHandle = connection.sourceHandle
       IN  ~sourceAlreadyConnected

\* reactflow getEdgeId: `reactflow__edge-${source}${sourceHandle}-${target}${targetHandle}`
EdgeIdOf(c) ==
  "reactflow__edge-" \o c.source \o c.sourceHandle \o "-" \o c.target \o c.targetHandle

\* the edge object onConnect hands to addEdge, with the id addEdge gives it
NewEdge(connection) ==
  [id |-> EdgeIdOf(connection),
   source |-> connection.source, sourceHandle |-> connection.sourceHandle,
   target |-> connection.target, targetHandle |-> connection.targetHandle,
   style |-> "primary-2", animated |-> FALSE]

\* reactflow connectionExists
connectionExists(edge, eds) ==
  \E i \in 1..Len(eds) :
     /\ eds[i].source = edge.source
     /\ eds[i].target = edge.target
     /\ eds[i].sourceHandle = edge.sourceHandle
     /\ eds[i].targetHandle = edge.targetHandle

\* reactflow addEdge as onConnect calls it
addEdge(connection, eds) ==
  IF connectionExists(NewEdge(connection), eds)
  THEN eds
  ELSE Append(eds, NewEdge(connection))

\* applyNodeChanges / applyEdgeChanges for 'remove' changes
applyRemove(items, ids) == Filter(items, LAMBDA it : it.id \notin ids)

\* handleNodesChange for the removal of the nodes ids: onNodesChange(changes)
handleNodesChange(nds, ids) == applyRemove(nds, ids)

\* handleEdgesChange that only reports to the parent and applies nothing
handleEdgesChangeNotApplied(eds, ids) == eds

\* handleEdgesChange for the removal of the edges ids: onEdgesChange(changes)
handleEdgesChange(eds, ids) == applyRemove(eds, ids)

\* reactflow getConnectedEdges: the edges touching one of the nodes
getConnectedEdges(ids, eds) ==
  {eds[i].id : i \in {j \in 1..Len(eds) : eds[j].source \in ids \/ eds[j].target \in ids}}

\* an updater that writes the text into every node
updateNodeTextAll(nds, nodeId, newText) ==
  Map(nds, LAMBDA n : [n EXCEPT !.data = [n.data EXCEPT !.text = newText]])

\* updateNodeText's updater
updateNodeText(nds, nodeId, newText) ==
  Map(nds, LAMBDA n : IF n.id = nodeId
                      THEN [n EXCEPT !.data = [n.data EXCEPT !.text = newText]]
                      ELSE n)

\* useCallback(isValidConnection, []): the callback keeps the edges of its first render
isValidConnectionNoDeps(prev, eds) == prev

\* useCallback(isValidConnection, [edges]): the edges the callback of this render sees
isValidConnectionDeps(prev, eds) == eds

\* the getter registered once, by the first render only
registerGetFlowDataOnce(prev, nds, eds) ==
  IF prev.registered THEN prev ELSE [registered |-> TRUE, nodes |-> nds, edges |-> eds]

\* registerGetFlowData(() => ({nodes, edges})), called in every render
registerGetFlowData(prev, nds, eds) ==
  [registered |-> TRUE, nodes |-> nds, edges |-> eds]

\* a render of FlowBuilder with the state nds, eds
Render(nds, eds) ==
  /\ cbEdges' = isValidConnectionDeps(cbEdges, eds)
  /\ getFlowDataFn' = registerGetFlowData(getFlowDataFn, nds, eds)

(***************************************************************************)
(* Builder.tsx: the page                                                   *)
(***************************************************************************)
Unregistered == [registered |-> FALSE, nodes |-> << >>, edges |-> << >>]

Idle == [status |-> "idle"]

NOTIFICATION_DURATION == 3500

\* a canvas that calls onConnect whatever isValidConnection answers
connectEdgesUnchecked(valid, connection, eds) == addEdge(connection, eds)

\* React Flow with the isValidConnection and onConnect props: onConnect runs,
\* and adds the edge, only for a connection isValidConnection accepts
connectEdges(valid, connection, eds) ==
  IF valid THEN addEdge(connection, eds) ELSE eds

\* ExportMenu's mousedown listener, for a press outside its wrapper
handleOutsideClick(open) == FALSE

\* getFlowData: getFlowDataFn.current?.() ?? {nodes: [], edges: []}
getFlowData ==
  IF getFlowDataFn.registered
  THEN [nodes |-> getFlowDataFn.nodes, edges |-> getFlowDataFn.edges]
  ELSE [nodes |-> << >>, edges |-> << >>]

\* the handles setTimeout can return
TimerIds == 1..(MaxTimers + 1)

\* a pending timer: its handle and its delay
Timer(handle, delay) == [id |-> handle, delay |-> delay]

\* clearTimeout(handle): the pending timers without the one the handle names
clearTimeout(pending, handle) == {tm \in pending : tm.id # handle}

\* setTimeout(callback, delay): a timer under a handle that names no pending one
setTimeout(pending, delay) ==
  Timer(CHOOSE h \in TimerIds :
          /\ h \notin {tm.id : tm \in pending}
          /\ \A g \in TimerIds : g < h => g \in {tm.id : tm \in pending},
        delay)

\* the delay of the pending timer that notifTimerRef.current names, 0 when none
notifTimer ==
  IF \E tm \in timers : tm.id = notifTimerRef
  THEN (CHOOSE tm \in timers : tm.id = notifTimerRef).delay
  ELSE 0

\* a showNotification that starts no timer
showNotificationNoTimer(n) ==
  /\ notification' = n
  /\ timers' = timers
  /\ notifTimerRef' = notifTimerRef

\* a showNotification that does not cancel the timer it holds
showNotificationNoClear(n) ==
  /\ Cardinality(timers) < MaxTimers
  /\ notification' = n
  /\ LET started == setTimeout(timers, NOTIFICATION_DURATION)
     IN  /\ timers' = timers \cup {started}
         /\ notifTimerRef' = started.id

\* showNotification: cancel the timer notifTimerRef holds, show n, start a new
\* timer and keep its handle; the browser does not hand out the handle of the
\* timer just cancelled again
showNotification(n) ==
  /\ Cardinality(clearTimeout(timers, notifTimerRef)) < MaxTimers
  /\ notification' = n
  /\ LET started == setTimeout(timers, NOTIFICATION_DURATION)
     IN  /\ timers' = clearTimeout(timers, notifTimerRef) \cup {started}
         /\ notifTimerRef' = started.id

\* Builder's render: the disabled prop it gives ExportMenu
exportDisabled(count) == count = 0

\* a PNG item that is never disabled
imageItemNeverDisabled(loading) == FALSE

\* ExportMenu's render: the disabled attribute of the PNG item
imageItemDisabled(loading) == loading

MsgJsonExported == "Flow exported as JSON successfully!"
MsgJsonFailed == "Failed to export JSON. Please try again."
MsgImageExported == "Canvas exported as PNG successfully!"

\* a handleExportJSON without its catch branch
jsonNotificationAlwaysSuccess(outcome) ==
  [status |-> "success", message |-> MsgJsonExported]

\* Builder.handleExportJSON: the notification after the try block
jsonNotification(outcome) ==
  IF outcome.kind = "returns"
  THEN [status |-> "success", message |-> MsgJsonExported]
  ELSE [status |-> "error", message |-> MsgJsonFailed]

\* Builder.handleExportImage: the notification for a result
imageNotification(result) ==
  IF result.success
  THEN [status |-> "success", message |-> MsgImageExported]
  ELSE [status |-> "error", message |-> "Image export failed: " \o result.error]

(***************************************************************************)
(* The actions: one per user gesture, each with the render that follows.   *)
(***************************************************************************)
\* the Start button / the /builder route: Builder and FlowBuilder are created
NavigateBuilder ==
  /\ ~mounted
  /\ mounted' = TRUE
  /\ nodes' = initialNodes
  /\ edges' = initialEdges
  /\ nodeCount' = INITIAL_NODE_COUNT
  /\ selectedNodeId' = Null
  /\ selectedNodeText' = ""
  /\ notification' = Idle
  /\ notifTimerRef' = 0
  /\ timers' = {}
  /\ Render(nodes', edges')
  /\ nodeIdCounter' = nodeIdCounterOnMount(nodeIdCounter)
  /\ lastOp' = "mount"
  /\ counterAtMount' = nodeIdCounter'
  /\ assignedIds' = assignedIds \cup NodeIds(initialNodes)
  /\ isOpen' = FALSE
  /\ imageLoading' = FALSE
  /\ pendingExports' = 0
  /\ UNCHANGED <<abandonedExports, abandonedTimers, fnVars>>

\* the back button: navigate('/') discards the page and its canvas
NavigateHome ==
  /\ mounted
  /\ abandonedTimers + Cardinality(timers) < MaxTimers
  /\ mounted' = FALSE
  /\ nodes' = << >>
  /\ edges' = << >>
  /\ cbEdges' = << >>
  /\ getFlowDataFn' = Unregistered
  /\ nodeCount' = 0
  /\ selectedNodeId' = Null
  /\ selectedNodeText' = ""
  /\ notification' = Idle
  /\ notifTimerRef' = 0
  /\ timers' = {}
  /\ abandonedTimers' = abandonedTimers + Cardinality(timers)
  /\ isOpen' = FALSE
  /\ imageLoading' = FALSE
  /\ pendingExports' = 0
  /\ abandonedExports' = abandonedExports + pendingExports
  /\ lastOp' = "unmount"
  /\ UNCHANGED <<nodeIdCounter, counterAtMount, assignedIds, fnVars>>

\* onDrop, with the payload dataTransfer carries
onDrop(type) ==
  /\ mounted
  /\ Len(nodes) < MaxNodes
  /\ nodeIdCounter <= MaxNodeId
  /\ IF type = ""
     THEN /\ UNCHANGED <<nodes, nodeIdCounter, nodeCount, assignedIds>>
          /\ lastOp' = "drop-ignored"
     ELSE LET newNode == [id |-> generateNodeId(nodeIdCounter), type |-> type,
                          position |-> DropPosition, data |-> [text |-> ""]]
          IN  /\ nodeIdCounter' = nodeIdCounter + 1
              /\ nodes' = Append(nodes, newNode)
              /\ nodeCount' = Len(nodes')
              /\ assignedIds' = assignedIds \cup {newNode.id}
              /\ lastOp' = "drop"
  /\ Render(nodes', edges)
  /\ isOpen' = handleOutsideClick(isOpen)
  /\ UNCHANGED <<mounted, edges, selectedNodeId, selectedNodeText,
                 notification, notifTimerRef, timers, counterAtMount, fnVars,
                 imageLoading, pendingExports, abandonedExports, abandonedTimers>>

\* a connection gesture from s's source handle to t's target handle: React Flow
\* asks isValidConnection and calls onConnect when it answers true
Connect(s, t) ==
  /\ mounted
  /\ s \in NodeIds(nodes)
  /\ t \in NodeIds(nodes)
  /\ Len(edges) < MaxEdges
  /\ edges' = connectEdges(isValidConnection(Connection(s, t), cbEdges),
                           Connection(s, t), edges)
  /\ lastOp' = IF isValidConnection(Connection(s, t), cbEdges) THEN "connect"
               ELSE IF s = t THEN "connect-rejected-self" ELSE "connect-rejected-port"
  /\ Render(nodes, edges')
  /\ isOpen' = handleOutsideClick(isOpen)
  /\ UNCHANGED <<mounted, nodes, nodeIdCounter, pageVars, counterAtMount,
                 assignedIds, fnVars, imageLoading, pendingExports, abandonedExports, abandonedTimers>>

\* the Delete key with the nodes S and the edges E selected: React Flow removes
\* E and the edges connected to S through handleEdgesChange, S through
\* handleNodesChange, and then reports the empty selection
DeleteKey(S, E) ==
  /\ mounted
  /\ S \cup E # {}
  /\ selectedNodeId # Null =>
        /\ selectedNodeId \in S
        /\ \A i \in 1..Len(nodes) :
              nodes[i].id \in S => \E j \in 1..i : nodes[j].id = selectedNodeId
  /\ edges' = handleEdgesChange(edges, E \cup getConnectedEdges(S, edges))
  /\ nodes' = handleNodesChange(nodes, S)
  /\ nodeCount' = IF S = {} THEN nodeCount ELSE Len(nodes')
  /\ selectedNodeId' = Null
  /\ selectedNodeText' = ""
  /\ Render(nodes', edges')
  /\ lastOp' = IF getConnectedEdges(S, edges) # {} THEN "delete-cascade" ELSE "delete"
  /\ UNCHANGED <<mounted, nodeIdCounter, notification, notifTimerRef, timers,
                 counterAtMount, assignedIds, fnVars, menuVars>>

\* handleSelectionChange(nodeId): the first selected node, or null
handleSelectionChange(nodeId) ==
  /\ mounted
  /\ nodeId \in NodeIds(nodes) \cup {Null}
  /\ selectedNodeId' = nodeId
  /\ selectedNodeText' =
        IF nodeId # Null
        THEN LET found == {i \in 1..Len(getFlowData.nodes) :
                             getFlowData.nodes[i].id = nodeId}
             IN  IF found = {} THEN ""
                 ELSE getFlowData.nodes[CHOOSE i \in found :
                                          \A j \in found : i <= j].data.text
        ELSE ""
  /\ Render(nodes, edges)
  /\ lastOp' = "select"
  /\ UNCHANGED <<mounted, nodes, edges, nodeIdCounter, nodeCount,
                 notification, notifTimerRef, timers, counterAtMount, assignedIds, fnVars, menuVars>>

\* handleTextChange(newText): the settings panel's textarea
handleTextChange(newText) ==
  /\ mounted
  /\ selectedNodeId # Null
  /\ selectedNodeText' = newText
  /\ nodes' = updateNodeText(nodes, selectedNodeId, newText)
  /\ Render(nodes', edges)
  /\ lastOp' = "text"
  /\ UNCHANGED <<mounted, edges, nodeIdCounter, selectedNodeId, nodeCount,
                 notification, notifTimerRef, timers, counterAtMount, assignedIds, fnVars, menuVars>>

\* handleBack: the settings panel's back button
handleBack ==
  /\ mounted
  /\ selectedNodeId # Null
  /\ selectedNodeId' = Null
  /\ selectedNodeText' = ""
  /\ Render(nodes, edges)
  /\ lastOp' = "back"
  /\ UNCHANGED <<mounted, nodes, edges, nodeIdCounter, nodeCount,
                 notification, notifTimerRef, timers, counterAtMount, assignedIds, fnVars, menuVars>>

\* handleSave: validate what getFlowData returns and show the verdict
handleSave ==
  /\ mounted
  /\ LET result == validateFlow(getFlowData.nodes, getFlowData.edges)
     IN  showNotification([status |-> IF result.valid THEN "success" ELSE "error",
                           message |-> result.message])
  /\ nodes' = validateFlowArguments(getFlowData.nodes, getFlowData.edges).nodes
  /\ edges' = validateFlowArguments(getFlowData.nodes, getFlowData.edges).edges
  /\ Render(nodes', edges')
  /\ lastOp' = "save"
  /\ UNCHANGED <<mounted, nodeIdCounter, selectedNodeId,
                 selectedNodeText, nodeCount, counterAtMount, assignedIds, fnVars, menuVars>>

\* the dismiss timer fires after NOTIFICATION_DURATION
NotificationTimeout ==
  /\ mounted
  /\ \E tm \in timers : timers' = timers \ {tm}
  /\ notification' = Idle
  /\ notifTimerRef' = notifTimerRef
  /\ Render(nodes, edges)
  /\ lastOp' = "timeout"
  /\ UNCHANGED <<mounted, nodes, edges, nodeIdCounter, selectedNodeId,
                 selectedNodeText, nodeCount, counterAtMount, assignedIds, fnVars, menuVars>>

\* toggleMenu: a click on the Export button, which is disabled on an empty canvas
toggleMenu ==
  /\ mounted
  /\ ~exportDisabled(nodeCount)
  /\ isOpen' = ~isOpen
  /\ lastOp' = "toggle-menu"
  /\ UNCHANGED <<canvasVars, pageVars, imageLoading, pendingExports, abandonedExports, abandonedTimers,
                 counterAtMount, assignedIds, fnVars>>

\* a mouse press outside the open dropdown
OutsideClick ==
  /\ mounted
  /\ isOpen
  /\ isOpen' = handleOutsideClick(isOpen)
  /\ lastOp' = "outside-click"
  /\ UNCHANGED <<canvasVars, pageVars, imageLoading, pendingExports, abandonedExports, abandonedTimers,
                 counterAtMount, assignedIds, fnVars>>

\* what exportFlowAsJSON can do when called
JsonExportOutcomes == {Returns("done"), ThrowsError("Failed to execute createObjectURL")}

\* a click on the dropdown's JSON item: ExportMenu.handleExportJSON calls
\* Builder.handleExportJSON and closes the dropdown
handleExportJSON(outcome) ==
  /\ mounted
  /\ isOpen
  /\ showNotification(jsonNotification(outcome))
  /\ isOpen' = FALSE
  /\ lastOp' = IF outcome.kind = "returns" THEN "export-json" ELSE "export-json-failed"
  /\ UNCHANGED <<canvasVars, selectedNodeId, selectedNodeText, nodeCount,
                 imageLoading, pendingExports, abandonedExports, abandonedTimers,
                 counterAtMount, assignedIds, fnVars>>

\* a click on the dropdown's PNG item: ExportMenu.handleExportImage up to the
\* await, Builder.handleExportImage and exportFlowAsImage up to await toPng
handleExportImage ==
  /\ mounted
  /\ isOpen
  /\ ~imageItemDisabled(imageLoading)
  /\ pendingExports + abandonedExports < MaxExports
  /\ imageLoading' = TRUE
  /\ pendingExports' = pendingExports + 1
  /\ lastOp' = "export-image"
  /\ UNCHANGED <<canvasVars, pageVars, isOpen, abandonedExports, abandonedTimers,
                 counterAtMount, assignedIds, fnVars>>

\* toPng settles for an export of this page: the rest of exportFlowAsImage,
\* Builder.handleExportImage's notification, ExportMenu's finally block
ImageExportSettles(toPng, download) ==
  /\ mounted
  /\ pendingExports > 0
  /\ LET promise == exportFlowAsImage([element |-> TRUE, toPng |-> toPng,
                                       download |-> download])
     IN  /\ IF promise.state = "fulfilled"
            THEN showNotification(imageNotification(promise.value))
            ELSE UNCHANGED <<notification, notifTimerRef, timers>>
         /\ lastOp' = IF promise.state = "fulfilled" /\ promise.value.success
                      THEN "image-exported" ELSE "image-export-failed"
  /\ pendingExports' = pendingExports - 1
  /\ imageLoading' = FALSE
  /\ isOpen' = FALSE
  /\ UNCHANGED <<canvasVars, selectedNodeId, selectedNodeText, nodeCount,
                 abandonedExports, abandonedTimers, counterAtMount, assignedIds, fnVars>>

\* toPng settles for an export of a page that was left: its notification and
\* its finally block set the state of components that no longer exist
AbandonedExportSettles ==
  /\ abandonedExports > 0
  /\ abandonedExports' = abandonedExports - 1
  /\ \/ /\ abandonedTimers + 1 < MaxTimers
        /\ abandonedTimers' = abandonedTimers + 1
     \/ /\ abandonedTimers > 0
        /\ abandonedTimers' = abandonedTimers
  /\ lastOp' = "abandoned-export-settled"
  /\ UNCHANGED <<canvasVars, pageVars, isOpen, imageLoading, pendingExports,
                 counterAtMount, assignedIds, fnVars>>

\* the dismiss timer of a page that was left fires: setNotification on a
\* component that no longer exists changes nothing
AbandonedTimerFires ==
  /\ abandonedTimers > 0
  /\ abandonedTimers' = abandonedTimers - 1
  /\ lastOp' = "abandoned-timeout"
  /\ UNCHANGED <<canvasVars, pageVars, isOpen, imageLoading, pendingExports,
                 abandonedExports, counterAtMount, assignedIds, fnVars>>

\* the page before /builder is first shown
InitPage ==
  /\ mounted = FALSE
  /\ nodes = << >>
  /\ edges = << >>
  /\ nodeIdCounter = 1
  /\ cbEdges = << >>
  /\ getFlowDataFn = Unregistered
  /\ selectedNodeId = Null
  /\ selectedNodeText = ""
  /\ nodeCount = 0
  /\ notification = Idle
  /\ notifTimerRef = 0
  /\ timers = {}
  /\ isOpen = FALSE
  /\ imageLoading = FALSE
  /\ pendingExports = 0
  /\ abandonedExports = 0
  /\ abandonedTimers = 0
  /\ lastOp = "none"
  /\ counterAtMount = 1
  /\ assignedIds = {}

\* no function call under way
InitFn ==
  /\ fnPc = "idle"
  /\ fnNodes = << >>
  /\ fnEdges = << >>
  /\ fnConn = Connection(Null, Null)
  /\ fnDate = Null
  /\ fnOut = Null
  /\ fnPrev = Null
  /\ fnEnv = Null
  /\ fnDownload = Null
  /\ fnArgs = Null

Init == InitPage /\ InitFn

EdgeIds(eds) == {eds[i].id : i \in 1..Len(eds)}

\* the canvas and its settings panel
Next ==
  \/ NavigateBuilder
  \/ NavigateHome
  \/ \E type \in DropPayloads : onDrop(type)
  \/ \E s \in NodeIds(nodes), t \in NodeIds(nodes) : Connect(s, t)
  \/ \E S \in SUBSET NodeIds(nodes) :
       \E E \in SUBSET (EdgeIds(edges) \ getConnectedEdges(S, edges)) : DeleteKey(S, E)
  \/ \E nodeId \in NodeIds(nodes) \cup {Null} : handleSelectionChange(nodeId)
  \/ \E newText \in Texts : handleTextChange(newText)
  \/ handleBack

Spec == Init /\ [][Next]_vars

\* the page with its Save button, without the settings panel
NextPage ==
  \/ NavigateBuilder
  \/ NavigateHome
  \/ \E type \in DropPayloads : onDrop(type)
  \/ \E s \in NodeIds(nodes), t \in NodeIds(nodes) : Connect(s, t)
  \/ \E S \in SUBSET NodeIds(nodes) :
       \E E \in SUBSET (EdgeIds(edges) \ getConnectedEdges(S, edges)) : DeleteKey(S, E)
  \/ handleSave
  \/ NotificationTimeout
  \/ AbandonedTimerFires

SpecPage == Init /\ [][NextPage]_vars

(***************************************************************************)
(* validateFlow on every flow within the bounds.                           *)
(***************************************************************************)
\* a node as the canvas holds it
FlowNode(id) ==
  [id |-> id, type |-> "textNode", position |-> DropPosition, data |-> [text |-> ""]]

\* the ids the counter can have handed out, and one that names no node
FlowIds == {NodeIdOf(n) : n \in 0..MaxNodeId}
MissingId == NodeIdOf(MaxNodeId + 1)

\* node lists in creation order
FlowNodeLists ==
  LET all == [i \in 1..(MaxNodeId + 1) |-> FlowNode(NodeIdOf(i - 1))]
  IN  {SelectSeq(all, LAMBDA n : n.id \in S) : S \in SUBSET FlowIds}

\* edge lists between any two ids, self-loops and missing nodes included
FlowEdges == {NewEdge(Connection(a, b)) : a \in FlowIds \cup {MissingId},
                                          b \in FlowIds \cup {MissingId}}
FlowEdgeLists == UNION {[1..k -> FlowEdges] : k \in 0..MaxEdges}

InitValidate ==
  /\ InitPage
  /\ fnPc = "call"
  /\ fnNodes \in FlowNodeLists
  /\ fnEdges \in FlowEdgeLists
  /\ fnConn = Connection(Null, Null)
  /\ fnDate = Null
  /\ fnOut = Null
  /\ fnPrev = Null
  /\ fnEnv = Null
  /\ fnDownload = Null
  /\ fnArgs = Null

\* a call, and a second call on the same arrays
CallValidateFlow ==
  /\ fnPc \in {"call", "done"}
  /\ fnPrev' = fnOut
  /\ fnOut' = validateFlow(fnNodes, fnEdges)
  /\ fnNodes' = validateFlowArguments(fnNodes, fnEdges).nodes
  /\ fnEdges' = validateFlowArguments(fnNodes, fnEdges).edges
  /\ fnPc' = IF fnPc = "call" THEN "done" ELSE "again"
  /\ UNCHANGED <<canvasVars, pageVars, historyVars, menuVars,
                 fnConn, fnDate, fnEnv, fnDownload, fnArgs>>

SpecValidate == InitValidate /\ [][CallValidateFlow]_vars

(***************************************************************************)
(* isValidConnection on every proposal and edge list within the bounds.    *)
(***************************************************************************)
\* source handle ids: TextNode's, and a second one as a node with two outputs has
SourceHandleIds == {SourceHandle, "alt"}

Proposals ==
  {[source |-> a, sourceHandle |-> h, target |-> b, targetHandle |-> TargetHandle] :
     a \in FlowIds, b \in FlowIds, h \in SourceHandleIds}

ProposalEdgeLists == UNION {[1..k -> {NewEdge(c) : c \in Proposals}] : k \in 0..MaxEdges}

InitConnection ==
  /\ InitPage
  /\ fnPc = "call"
  /\ fnNodes = << >>
  /\ fnEdges \in ProposalEdgeLists
  /\ fnConn \in Proposals
  /\ fnDate = Null
  /\ fnOut = Null
  /\ fnPrev = Null
  /\ fnEnv = Null
  /\ fnDownload = Null
  /\ fnArgs = Null

CallIsValidConnection ==
  /\ fnPc = "call"
  /\ fnOut' = isValidConnection(fnConn, fnEdges)
  /\ fnPc' = "done"
  /\ UNCHANGED <<canvasVars, pageVars, historyVars, menuVars, fnNodes, fnEdges,
                 fnConn, fnDate, fnPrev, fnEnv, fnDownload, fnArgs>>

SpecConnection == InitConnection /\ [][CallIsValidConnection]_vars

(***************************************************************************)
(* exportFlowAsJSON on every graph within the bounds, as React Flow holds  *)
(* it: with its runtime fields.                                            *)
(***************************************************************************)
\* a node untouched since its drop, or edited, moved and being dragged
ExportNode(id, how) ==
  IF how = "plain"
  THEN [id |-> id, type |-> "textNode", position |-> DropPosition,
        data |-> [text |-> ""], selected |-> FALSE, dragging |-> FALSE]
  ELSE [id |-> id, type |-> "textNode", position |-> [x |-> 180, y |-> 180],
        data |-> [text |-> "hi"], selected |-> TRUE, dragging |-> TRUE]

ExportNodeLists ==
  {LET present == SelectSeq([i \in 1..(MaxNodeId + 1) |-> i], LAMBDA i : how[i] # "absent")
   IN  [k \in 1..Len(present) |-> ExportNode(NodeIdOf(present[k] - 1), how[present[k]])] :
     how \in [1..(MaxNodeId + 1) -> {"absent", "plain", "edited"}]}

\* edges from each node to the next one
ExportEdges ==
  {NewEdge(Connection(NodeIdOf(n), NodeIdOf((n + 1) % (MaxNodeId + 1)))) : n \in 0..MaxNodeId}

ExportEdgeLists == UNION {[1..k -> ExportEdges] : k \in 0..MaxEdges}

ExportDates == {[year |-> 2026, month |-> 10, date |-> 4],
                [year |-> 2025, month |-> 0, date |-> 31]}

InitExport ==
  /\ InitPage
  /\ fnPc = "call"
  /\ fnNodes \in ExportNodeLists
  /\ fnEdges \in ExportEdgeLists
  /\ fnConn = Connection(Null, Null)
  /\ fnDate \in ExportDates
  /\ fnOut = Null
  /\ fnPrev = Null
  /\ fnEnv = Null
  /\ fnDownload = Null
  /\ fnArgs = Null

CallExportFlowAsJSON ==
  /\ fnPc = "call"
  /\ fnOut' = exportFlowAsJSON(fnNodes, fnEdges, fnDate)
  /\ fnPc' = "done"
  /\ UNCHANGED <<canvasVars, pageVars, historyVars, menuVars, fnNodes, fnEdges,
                 fnConn, fnDate, fnPrev, fnEnv, fnDownload, fnArgs>>

SpecExport == InitExport /\ [][CallExportFlowAsJSON]_vars

(***************************************************************************)
(* exportFlowAsImage with every behaviour of its collaborators.            *)
(***************************************************************************)
\* toPng resolves with a data URL or rejects
ToPngOutcomes ==
  {Returns(url) : url \in {"data:image/png;base64,AAAA", "data:image/png;base64,BBBB"}}
    \cup {ThrowsError(msg) : msg \in {"The operation is insecure.", "Out of memory"}}
    \cup {ThrowsValue("event")}

\* the download step completes, or throws before or after the link was clicked
DownloadOutcomes ==
  {[kind |-> "returns", value |-> "done", clicked |-> TRUE]}
    \cup {[kind |-> k, value |-> "Node was not found", clicked |-> c] :
            k \in {"error", "thrown"}, c \in BOOLEAN}

ImageEnvs ==
  [element : BOOLEAN, toPng : ToPngOutcomes, download : DownloadOutcomes]

InitImage ==
  /\ InitPage
  /\ fnPc = "call"
  /\ fnNodes = << >>
  /\ fnEdges = << >>
  /\ fnConn = Connection(Null, Null)
  /\ fnDate = Null
  /\ fnOut = Null
  /\ fnPrev = Null
  /\ fnEnv \in ImageEnvs
  /\ fnDownload = Null
  /\ fnArgs = Null

\* the call: up to the return for a missing element, or up to await toPng(...)
CallExportFlowAsImage ==
  /\ fnPc = "call"
  /\ IF fnEnv.element
     THEN /\ fnPc' = "awaiting"
          /\ fnOut' = fnOut
     ELSE /\ fnPc' = "done"
          /\ fnOut' = exportFlowAsImage(fnEnv)
  /\ UNCHANGED <<canvasVars, pageVars, historyVars, menuVars, fnNodes, fnEdges,
                 fnConn, fnDate, fnPrev, fnEnv, fnDownload, fnArgs>>

\* toPng settles: the rest of the function runs
ToPngSettles ==
  /\ fnPc = "awaiting"
  /\ fnPc' = "done"
  /\ fnOut' = exportFlowAsImage(fnEnv)
  /\ fnDownload' = imageDownload(fnEnv)
  /\ UNCHANGED <<canvasVars, pageVars, historyVars, menuVars, fnNodes, fnEdges,
                 fnConn, fnDate, fnPrev, fnEnv, fnArgs>>

SpecImage == InitImage /\ [][CallExportFlowAsImage \/ ToPngSettles]_vars

(***************************************************************************)
(* updateNodeText on a canvas holding any nodes and edges.                 *)
(***************************************************************************)
\* the texts the settings panel sends
UpdateTexts == {"", "hi", "hello"}

\* the canvas's edges: none or one
UpdateEdgeLists == {<< >>} \cup {<<e>> : e \in ExportEdges}

InitUpdateText ==
  /\ InitPage
  /\ fnPc = "call"
  /\ fnNodes \in ExportNodeLists
  /\ fnEdges \in UpdateEdgeLists
  /\ fnConn = Connection(Null, Null)
  /\ fnDate = Null
  /\ fnOut = Null
  /\ fnPrev = Null
  /\ fnEnv = Null
  /\ fnDownload = Null
  /\ fnArgs \in [nodeId : FlowIds \cup {MissingId}, newText : UpdateTexts]

\* updateNodeText(nodeId, newText): setNodes with the updater; setEdges is not called
CallUpdateNodeText ==
  /\ fnPc = "call"
  /\ fnOut' = [nodes |-> updateNodeText(fnNodes, fnArgs.nodeId, fnArgs.newText),
               edges |-> fnEdges]
  /\ fnPc' = "done"
  /\ UNCHANGED <<canvasVars, pageVars, historyVars, menuVars, fnNodes, fnEdges,
                 fnConn, fnDate, fnPrev, fnEnv, fnDownload, fnArgs>>

SpecUpdateText == InitUpdateText /\ [][CallUpdateNodeText]_vars

\* the page with its Export menu and its Save button, without connections
NextMenu ==
  \/ NavigateBuilder
  \/ NavigateHome
  \/ \E type \in DropPayloads : onDrop(type)
  \/ \E S \in SUBSET NodeIds(nodes) :
       \E E \in SUBSET (EdgeIds(edges) \ getConnectedEdges(S, edges)) : DeleteKey(S, E)
  \/ handleSave
  \/ NotificationTimeout
  \/ AbandonedTimerFires
  \/ toggleMenu
  \/ OutsideClick
  \/ \E outcome \in JsonExportOutcomes : handleExportJSON(outcome)
  \/ handleExportImage
  \/ \E toPng \in ToPngOutcomes, download \in DownloadOutcomes :
       ImageExportSettles(toPng, download)
  \/ AbandonedExportSettles

SpecMenu == Init /\ [][NextMenu]_vars

\* the rasterizer settles every call, and a timer that is due fires
SpecMenuFair ==
  /\ SpecMenu
  /\ WF_vars(\E toPng \in ToPngOutcomes, download \in DownloadOutcomes :
               ImageExportSettles(toPng, download))
  /\ WF_vars(AbandonedExportSettles)
  /\ WF_vars(NotificationTimeout)
  /\ WF_vars(AbandonedTimerFires)

(***************************************************************************)
(* A flow read as an undirected graph.                                     *)
(***************************************************************************)
\* the ids one edge away from the ids in S, in either direction
Neighbours(S, eds) ==
  {eds[i].target : i \in {j \in 1..Len(eds) : eds[j].source \in S}}
    \cup {eds[i].source : i \in {j \in 1..Len(eds) : eds[j].target \in S}}

RECURSIVE ReachableFrom(_, _, _)
ReachableFrom(S, ids, eds) ==
  LET more == (S \cup Neighbours(S, eds)) \cap ids
  IN  IF more = S THEN S ELSE ReachableFrom(more, ids, eds)

\* every node can be reached from the first one
Connected(nds, eds) ==
  nds # << >> => ReachableFrom({nds[1].id}, NodeIds(nds), eds) = NodeIds(nds)

(***************************************************************************)
(* Reading a JSON text back, as JSON.parse does.                           *)
(***************************************************************************)
RECURSIVE Tokens(_)
Tokens(ls) == IF ls = << >> THEN << >> ELSE Head(ls).tokens \o Tokens(Tail(ls))

Unquote(tok) == SubSeq(tok, 2, Len(tok) - 1)

RECURSIVE parseValue(_)
RECURSIVE parseMembers(_, _)
RECURSIVE parseItems(_, _)

\* the value the tokens start with, and the tokens after it
parseValue(toks) ==
  LET t == Head(toks)
  IN  IF t = "{"
      THEN IF toks[2] = "}"
           THEN [value |-> JObject(<< >>), rest |-> SubSeq(toks, 3, Len(toks))]
           ELSE parseMembers(Tail(toks), << >>)
      ELSE IF t = "["
      THEN IF toks[2] = "]"
           THEN [value |-> JArray(<< >>), rest |-> SubSeq(toks, 3, Len(toks))]
           ELSE parseItems(Tail(toks), << >>)
      ELSE IF SubSeq(t, 1, 1) = "\""
      THEN [value |-> JString(Unquote(t)), rest |-> Tail(toks)]
      ELSE IF t \in {"true", "false"}
      THEN [value |-> JBoolean(t = "true"), rest |-> Tail(toks)]
      ELSE [value |-> JNumber(CHOOSE n \in 0..MaxCoordinate : ToString(n) = t),
            rest |-> Tail(toks)]

parseMembers(toks, acc) ==
  LET r == parseValue(SubSeq(toks, 3, Len(toks)))
      members == Append(acc, Member(Unquote(toks[1]), r.value))
  IN  IF Head(r.rest) = ","
      THEN parseMembers(Tail(r.rest), members)
      ELSE [value |-> JObject(members), rest |-> Tail(r.rest)]

parseItems(toks, acc) ==
  LET r == parseValue(toks)
      items == Append(acc, r.value)
  IN  IF Head(r.rest) = ","
      THEN parseItems(Tail(r.rest), items)
      ELSE [value |-> JArray(items), rest |-> Tail(r.rest)]

JSON_parse(ls) == parseValue(Tokens(ls)).value

\* an object's keys, in order, and the value under a key
Keys(obj) == [i \in 1..Len(obj.members) |-> obj.members[i].key]
Get(obj, k) == obj.members[CHOOSE i \in 1..Len(obj.members) : obj.members[i].key = k].value

(***************************************************************************)
(* The claims.                                                             *)
(***************************************************************************)
\* the nodes of nds that are the target of no edge of eds
RootIndexes(nds, eds) ==
  {i \in 1..Len(nds) : \A j \in 1..Len(eds) : eds[j].target # nds[i].id}

(* C1: for every flow of at least 2 nodes and every edge list, validateFlow
   answers valid = false exactly when more than one node is the target of no
   edge, then with the message 'Cannot save flow: More than one node has empty
   target handles.'; otherwise it answers valid = true with 'Flow saved
   successfully!'. *)
C1_InvalidIffSeveralRoots ==
  (fnPc = "done" /\ Len(fnNodes) >= 2) =>
    IF Cardinality(RootIndexes(fnNodes, fnEdges)) > 1
    THEN fnOut = [valid |-> FALSE,
                  message |-> "Cannot save flow: More than one node has empty target handles."]
    ELSE fnOut = [valid |-> TRUE, message |-> "Flow saved successfully!"]

\* nodes 0, 1, 2 with the one edge 0 -> 1: the roots 0 and 2, refused
C1_Witness ==
  /\ fnPc = "done"
  /\ Len(fnNodes) = 3
  /\ Len(fnEdges) = 1
  /\ fnEdges[1].source = NodeIdOf(0)
  /\ fnEdges[1].target = NodeIdOf(1)
  /\ fnOut.valid = FALSE

(* C2: for every flow of 0 or 1 nodes validateFlow answers valid = true with
   'Flow saved successfully!', whatever the edges are: edges between missing
   nodes and self-loops included. *)
C2_TrivialFlowValid ==
  (fnPc = "done" /\ Len(fnNodes) <= 1) =>
    fnOut = [valid |-> TRUE, message |-> "Flow saved successfully!"]

\* one node, an edge between nodes that are not in the flow
C2_Witness ==
  /\ fnPc = "done"
  /\ Len(fnNodes) = 1
  /\ Len(fnEdges) = 2
  /\ fnEdges[1].source \notin NodeIds(fnNodes)
  /\ fnEdges[1].target \notin NodeIds(fnNodes)
  /\ fnEdges[2].source = fnEdges[2].target
  /\ fnOut.valid = TRUE

(* C3: in every state the user's gestures can reach, each (source node,
   source handle) pair has at most one edge, and the edge list the admission
   check reads is the current edge list, not an earlier one. *)
C3_OneEdgePerSourceHandle ==
  /\ \A i \in 1..Len(edges), j \in 1..Len(edges) :
        (i # j) => ~(/\ edges[i].source = edges[j].source
                     /\ edges[i].sourceHandle = edges[j].sourceHandle)
  /\ mounted => cbEdges = edges

\* a second edge was admitted beside an existing one
C3_Witness ==
  /\ lastOp = "connect"
  /\ Len(edges) = 2
  /\ edges[1].source # edges[2].source

\* the (source node, source handle) pairs in use
SourcePorts(eds) == {<<eds[i].source, eds[i].sourceHandle>> : i \in 1..Len(eds)}

(* C4: for every proposal with source # target and every edge list,
   isValidConnection answers false exactly when the proposal's (source node,
   source handle) pair is that of an existing edge: the answer is a function of
   the set of pairs in use, so neither the order of the edges nor the edges
   entering the proposed target matter. *)
C4_RejectIffSourcePortInUse ==
  (fnPc = "done" /\ fnConn.source # fnConn.target) =>
    (fnOut = FALSE <=> <<fnConn.source, fnConn.sourceHandle>> \in SourcePorts(fnEdges))

\* accepted although the source node has an edge on its other handle and the
\* target already has an incoming edge
C4_Witness ==
  /\ fnPc = "done"
  /\ fnConn.source # fnConn.target
  /\ Len(fnEdges) = 2
  /\ fnEdges[1].source = fnConn.source
  /\ fnEdges[1].sourceHandle # fnConn.sourceHandle
  /\ fnEdges[2].target = fnConn.target
  /\ fnEdges[2].source # fnConn.source
  /\ fnOut = TRUE

(* C5: for every proposal whose source is its target, isValidConnection answers
   false, whatever the handles and the edge list are, the empty list included. *)
C5_SelfLoopRejected ==
  (fnPc = "done" /\ fnConn.source = fnConn.target) => fnOut = FALSE

\* a self-loop proposed on an empty canvas
C5_Witness ==
  /\ fnPc = "done"
  /\ fnConn.source = fnConn.target
  /\ fnEdges = << >>
  /\ fnOut = FALSE

(* C6: in every reachable state no edge has its source node as its target. *)
C6_NoSelfLoopEdge ==
  \A i \in 1..Len(edges) : edges[i].source # edges[i].target

\* a self-loop was proposed and refused while the canvas has an edge
C6_Witness ==
  /\ lastOp = "connect-rejected-self"
  /\ Len(edges) = 1

(* C7: in every reachable state each edge's source and target are nodes of the
   graph: the step that removes nodes removes every edge touching them. *)
C7_NoDanglingEdge ==
  \A i \in 1..Len(edges) :
     /\ edges[i].source \in NodeIds(nodes)
     /\ edges[i].target \in NodeIds(nodes)

\* a node was removed with its edge, and another edge is still there
C7_Witness ==
  /\ lastOp = "delete-cascade"
  /\ Len(nodes) = 2
  /\ Len(edges) = 1

(* C8: in every reachable state the node ids are pairwise distinct; a node
   that a step adds to a canvas gets an id no node ever had, also when the
   node that had it was deleted and also when the canvas was created again
   (which starts it with its starter node 'node_0'); and no step changes the
   id or the type of a node that stays. *)
C8_NodeIdsUniqueNeverReused ==
  /\ [](\A i \in 1..Len(nodes), j \in 1..Len(nodes) :
          (i # j) => nodes[i].id # nodes[j].id)
  /\ [][mounted' =>
          /\ \A id \in NodeIds(nodes') \ NodeIds(nodes) :
                \/ id \notin assignedIds
                \/ ~mounted /\ id \in NodeIds(initialNodes)
          /\ mounted =>
                \A j \in 1..Len(nodes') :
                   nodes'[j].id \in NodeIds(nodes) =>
                     \E i \in 1..Len(nodes) :
                        /\ nodes[i].id = nodes'[j].id
                        /\ nodes[i].type = nodes'[j].type
          /\ (mounted /\ Len(nodes') >= Len(nodes)) =>
                \A i \in 1..Len(nodes) :
                   /\ nodes'[i].id = nodes[i].id
                   /\ nodes'[i].type = nodes[i].type]_vars

\* the canvas was created again after node_1 had been handed out, and the node
\* dropped on it is node_2
C8_Witness ==
  /\ lastOp = "drop"
  /\ counterAtMount = 2
  /\ Len(nodes) = 2
  /\ nodes[1].id = NodeIdOf(0)
  /\ nodes[2].id = NodeIdOf(2)

(* C9: the document exportFlowAsJSON writes, read back, has one entry per node
   and one per edge, in the graph's order; a node entry has exactly the fields
   id, type, position {x, y}, data {text} and an edge entry exactly id, source,
   target, each with the original's value; no runtime field is in it. *)
C9_ExportKeepsGraphOnly ==
  (fnPc = "done") =>
    LET doc == JSON_parse(fnOut.content)
    IN  /\ Keys(doc) = <<"nodes", "edges">>
        /\ Len(Get(doc, "nodes").items) = Len(fnNodes)
        /\ Len(Get(doc, "edges").items) = Len(fnEdges)
        /\ \A i \in 1..Len(fnNodes) :
              LET entry == Get(doc, "nodes").items[i]
              IN  /\ Keys(entry) = <<"id", "type", "position", "data">>
                  /\ Get(entry, "id") = JString(fnNodes[i].id)
                  /\ Get(entry, "type") = JString(fnNodes[i].type)
                  /\ Keys(Get(entry, "position")) = <<"x", "y">>
                  /\ Get(Get(entry, "position"), "x") = JNumber(fnNodes[i].position.x)
                  /\ Get(Get(entry, "position"), "y") = JNumber(fnNodes[i].position.y)
                  /\ Keys(Get(entry, "data")) = <<"text">>
                  /\ Get(Get(entry, "data"), "text") = JString(fnNodes[i].data.text)
        /\ \A j \in 1..Len(fnEdges) :
              LET entry == Get(doc, "edges").items[j]
              IN  /\ Keys(entry) = <<"id", "source", "target">>
                  /\ Get(entry, "id") = JString(fnEdges[j].id)
                  /\ Get(entry, "source") = JString(fnEdges[j].source)
                  /\ Get(entry, "target") = JString(fnEdges[j].target)

\* the export of two nodes, one of them selected and being dragged, and an edge
C9_Witness ==
  /\ fnPc = "done"
  /\ Len(fnNodes) = 2
  /\ fnNodes[2].selected
  /\ fnNodes[2].dragging
  /\ Len(fnEdges) = 1
  /\ Len(Get(JSON_parse(fnOut.content), "nodes").items) = 2

(* C10: whenever the canvas is shown, the read accessor returns the graph as
   it is now: after every gesture (drop, connect, delete, text edit) a read by
   save, export or selection handling returns nodes and edges that include it. *)
C10_GetFlowDataIsCurrent ==
  mounted => getFlowData = [nodes |-> nodes, edges |-> edges]

\* a text edit on a graph with a dropped node and an edge, read back
C10_Witness ==
  /\ lastOp = "text"
  /\ Len(getFlowData.edges) = 1
  /\ \E i \in 1..Len(getFlowData.nodes) :
        /\ getFlowData.nodes[i].id = NodeIdOf(1)
        /\ getFlowData.nodes[i].data.text = "hi"


(* C11: exportFlowAsImage never rejects; it resolves to {success: true}
   exactly when the canvas element was found, toPng resolved and the download
   step completed, and otherwise to {success: false, error: message}, the
   message being the fixed one for a missing element, the Error's own message,
   or the fixed one for a thrown value that is no Error; no file is handed to
   the browser when the element is missing or toPng rejects. *)
C11_ImageExportResult ==
  (fnPc = "done") =>
    /\ fnOut.state = "fulfilled"
    /\ fnOut.value.success <=>
          (fnEnv.element /\ fnEnv.toPng.kind = "returns" /\ fnEnv.download.kind = "returns")
    /\ fnOut.value.success => DOMAIN fnOut.value = {"success"}
    /\ ~fnOut.value.success =>
          /\ DOMAIN fnOut.value = {"success", "error"}
          /\ fnOut.value.error =
                IF ~fnEnv.element THEN MsgNoCanvas
                ELSE LET thrown == IF fnEnv.toPng.kind # "returns"
                                   THEN fnEnv.toPng ELSE fnEnv.download
                     IN  IF thrown.kind = "error" THEN thrown.value
                         ELSE MsgUnknownImageError
    /\ (~fnEnv.element \/ fnEnv.toPng.kind # "returns") => fnDownload = Null

\* toPng rejected with an Error: the result carries its message
C11_Witness ==
  /\ fnPc = "done"
  /\ fnEnv.element
  /\ fnEnv.toPng = ThrowsError("Out of memory")
  /\ fnOut = Fulfilled([success |-> FALSE, error |-> "Out of memory"])
  /\ fnDownload = Null

\* C11 as stated: success exactly when the element was found and toPng resolved
C11_SuccessIffRasterized ==
  (fnPc = "done") =>
    (fnOut.value.success <=> (fnEnv.element /\ fnEnv.toPng.kind = "returns"))

ImageSettled == {"image-exported", "image-export-failed"}

(* C12: an image export of the page goes idle -> exporting -> (success |
   failure) -> idle. Nothing but the rasterizer settling ends a started export:
   leaving the page abandons it without cancelling it. When the rasterizer
   settles while the page is still shown, the loading flag is reset and one
   notification is shown, success on the success path and error on the failure
   path; the loading flag is only raised by the click that starts an export.
   If the rasterizer settles every call, an export that is pending leads to
   that notification or to the page being left, and the loading flag falls. *)
C12_ImageExportRunsToCompletion ==
  /\ [][
        /\ (pendingExports' + abandonedExports' < pendingExports + abandonedExports)
              => lastOp' \in ImageSettled \cup {"abandoned-export-settled"}
        /\ (lastOp' \in ImageSettled) =>
              /\ imageLoading /\ ~imageLoading'
              /\ notifTimer' = NOTIFICATION_DURATION
              /\ notification'.status =
                    IF lastOp' = "image-exported" THEN "success" ELSE "error"
        /\ (~imageLoading /\ imageLoading') => lastOp' = "export-image"
     ]_vars
  /\ (pendingExports > 0) ~> (lastOp \in ImageSettled \cup {"unmount"})
  /\ imageLoading ~> ~imageLoading

\* a failed export has reset the loading flag and shows its error
C12_Witness ==
  /\ mounted
  /\ lastOp = "image-export-failed"
  /\ ~imageLoading
  /\ pendingExports = 0
  /\ notification = [status |-> "error",
                     message |-> "Image export failed: Out of memory"]

\* C12 as stated: every started export leads to its notification being shown
C12_EveryExportIsNotified ==
  (pendingExports > 0) ~> (lastOp \in ImageSettled)

(* C13: of the image exports started from the page that is shown, at most one
   is in flight, and it is in flight exactly while imageLoading is true: while
   it is, no click, menu toggle or outside click starts a second one. *)
C13_OneImageExportPerPage ==
  /\ pendingExports <= 1
  /\ imageLoading <=> (pendingExports = 1)
  /\ (lastOp = "export-image") => pendingExports = 1

\* the dropdown was opened again while an export is pending
C13_Witness ==
  /\ imageLoading
  /\ isOpen
  /\ lastOp = "toggle-menu"
  /\ pendingExports = 1

\* C13 as stated: at most one image export is in flight at any time
C13_OneImageExportInFlight == pendingExports + abandonedExports <= 1

(* C14: the node count kept by the Builder is the number of nodes of the graph,
   and no export has been started, from either item of the dropdown, on a
   canvas whose count is 0. *)
C14_NoExportOnEmptyCanvas ==
  mounted =>
    /\ nodeCount = Len(nodes)
    /\ (nodeCount = 0) => lastOp \notin {"export-json", "export-json-failed", "export-image"}

\* which editing gestures the page accepts
EditingEnabled ==
  [drop |-> {type \in DropPayloads : ENABLED onDrop(type)},
   connect |-> {c \in NodeIds(nodes) \X NodeIds(nodes) : ENABLED Connect(c[1], c[2])},
   delete |-> {S \in SUBSET NodeIds(nodes) : ENABLED DeleteKey(S, {})},
   select |-> {n \in NodeIds(nodes) : ENABLED handleSelectionChange(n)},
   text |-> {newText \in Texts : ENABLED handleTextChange(newText)}]

(* C15: handleSave leaves the nodes and the edges exactly as they were,
   whether the verdict is valid or invalid, and every editing gesture the page
   accepted before the save it accepts after it. *)
C15_SaveLeavesGraph ==
  [][(lastOp' = "save") =>
       /\ nodes' = nodes
       /\ edges' = edges
       /\ notification'.status \in {"success", "error"}
       /\ EditingEnabled' = EditingEnabled
    ]_vars

\* a failed save of a graph with an edge and two roots
C15_Witness ==
  /\ lastOp = "save"
  /\ notification = [status |-> "error", message |-> MsgTooManyRoots]
  /\ Len(nodes) = 3
  /\ Len(edges) = 1

(* C16: a connection the admission check rejects creates no edge: nodes and
   edges are unchanged, and the notification and its timer are what they were. *)
C16_RejectedConnectionIsSilent ==
  [][(lastOp' \in {"connect-rejected-self", "connect-rejected-port"}) =>
       /\ nodes' = nodes
       /\ edges' = edges
       /\ notification' = notification
       /\ notifTimer' = notifTimer
    ]_vars

\* a second connection from a used source port was rejected while the
\* notification of a save was showing
C16_Witness ==
  /\ lastOp = "connect-rejected-port"
  /\ Len(edges) = 1
  /\ notification = [status |-> "success", message |-> MsgSaved]

(* C17: when exportFlowAsJSON throws, handleExportJSON shows the error
   notification; it shows the success notification exactly when the export
   returned; either way the nodes and the edges are what they were. *)
C17_JsonExportNotification ==
  [][/\ (lastOp' = "export-json-failed") =>
          notification' = [status |-> "error", message |-> MsgJsonFailed]
     /\ (lastOp' = "export-json") =>
          notification' = [status |-> "success", message |-> MsgJsonExported]
     /\ (notification' = [status |-> "success", message |-> MsgJsonExported]
           /\ notification' # notification) => lastOp' = "export-json"
     /\ (lastOp' \in {"export-json", "export-json-failed"}) =>
          /\ nodes' = nodes
          /\ edges' = edges
          /\ notifTimer' = NOTIFICATION_DURATION
    ]_vars

\* an export that threw, on a canvas with two nodes
C17_Witness ==
  /\ lastOp = "export-json-failed"
  /\ notification = [status |-> "error", message |-> MsgJsonFailed]
  /\ Len(nodes) = 2
  /\ ~isOpen

(* C18: a notification that is showing has a dismiss timer of
   NOTIFICATION_DURATION = 3500 ms pending, and, timers that are due firing,
   it leads to the idle state without any user action being needed. *)
C18_NotificationAutoDismissed ==
  /\ [](notification # Idle => notifTimer = 3500)
  /\ [](notification # Idle => ENABLED NotificationTimeout)
  /\ (notification # Idle) ~> (notification = Idle)

\* the timer fired and took the notification away
C18_Witness ==
  /\ mounted
  /\ lastOp = "timeout"
  /\ notification = Idle
  /\ notifTimer = 0

(* C19: a second validateFlow on the same arrays returns the same valid and
   the same message as the first, and no call changes the nodes or the edges. *)
C19_ValidateFlowPure ==
  /\ [](fnPc = "again" => /\ fnOut.valid = fnPrev.valid
                          /\ fnOut.message = fnPrev.message)
  /\ [][fnNodes' = fnNodes /\ fnEdges' = fnEdges]_vars

\* two calls on a flow with several roots
C19_Witness ==
  /\ fnPc = "again"
  /\ Len(fnNodes) = 3
  /\ Len(fnEdges) = 1
  /\ fnOut = [valid |-> FALSE, message |-> MsgTooManyRoots]
  /\ fnPrev = fnOut

(* C20: a flow of at least 2 nodes that validateFlow, called by Save, reports
   as valid is, read as an undirected graph, one connected component. *)
C20_ValidFlowIsConnected ==
  (lastOp = "save" /\ Len(nodes) >= 2
     /\ validateFlow(getFlowData.nodes, getFlowData.edges).valid
     /\ notification = [status |-> "success", message |-> MsgSaved])
    => Connected(nodes, edges)

\* a number below 100 in two digits
TwoDigits(n) == IF n < 10 THEN "0" \o ToString(n) ELSE ToString(n)

\* brackets opened and not yet closed in a sequence of tokens
RECURSIVE Nesting(_)
Nesting(toks) ==
  IF toks = << >> THEN 0
  ELSE Nesting(Tail(toks))
         + (IF Head(toks) \in {"{", "["} THEN 1
            ELSE IF Head(toks) \in {"}", "]"} THEN -1 ELSE 0)

\* the leading spaces of line i of a text indented by step spaces per level
IndentOf(ls, i, step) ==
  step * (Nesting(Tokens(SubSeq(ls, 1, i - 1)))
            - (IF Head(ls[i].tokens) \in {"}", "]"} THEN 1 ELSE 0))

(* C21: the JSON export names its file chatbot-flow-YYYY-MM-DD.json for the local
   date of the call, month (counted from 1) and day in two digits, whatever
   the graph is, and every line of the document is indented by 2 spaces per
   level of nesting. *)
C21_JsonFileNameAndIndent ==
  (fnPc = "done") =>
    /\ fnOut.filename = "chatbot-flow-" \o ToString(fnDate.year) \o "-"
                          \o TwoDigits(fnDate.month + 1) \o "-"
                          \o TwoDigits(fnDate.date) \o ".json"
    /\ \A i \in 1..Len(fnOut.content) :
          fnOut.content[i].indent = IndentOf(fnOut.content, i, 2)

\* an export on 31 January 2025 of a graph with a node
C21_Witness ==
  /\ fnPc = "done"
  /\ fnDate = [year |-> 2025, month |-> 0, date |-> 31]
  /\ fnOut.filename = "chatbot-flow-2025-01-31.json"
  /\ Len(fnNodes) = 1
  /\ \E i \in 1..Len(fnOut.content) : fnOut.content[i].indent = 8

(* C22: the JSON export names its file from the date alone, after the pattern
   chatbot-flow-YYYY-MM-DD.json: the prefix chatbot-flow-, a date of 10
   characters with dashes after the year and the month, the extension json. *)
C22_FileNamePattern ==
  (fnPc = "done") =>
    LET name == fnOut.filename
        day == SubSeq(name, 14, 23)
    IN  /\ Len(name) = 28
        /\ SubSeq(name, 1, 13) = "chatbot-flow-"
        /\ SubSeq(name, 24, 28) = ".json"
        /\ SubSeq(day, 1, 4) = ToString(fnDate.year)
        /\ SubSeq(day, 5, 5) = "-"
        /\ SubSeq(day, 8, 8) = "-"
        /\ fnOut.mimeType = "application/json"

\* an export on 4 November 2026 of an empty graph
C22_Witness ==
  /\ fnPc = "done"
  /\ fnDate = [year |-> 2026, month |-> 10, date |-> 4]
  /\ fnOut.filename = "chatbot-flow-2026-11-04.json"
  /\ fnNodes = << >>

\* C22 as stated: the file is named flow-export-YYYY-MM-DD.<ext>
C22_FlowExportName ==
  (fnPc = "done") => SubSeq(fnOut.filename, 1, 12) = "flow-export-"

\* the nodes reached from S along the direction of the edges
RECURSIVE Descendants(_, _)
Descendants(S, eds) ==
  LET more == S \cup {eds[i].target : i \in {j \in 1..Len(eds) : eds[j].source \in S}}
  IN  IF more = S THEN S ELSE Descendants(more, eds)

\* some edge lies on a directed cycle
Cyclic(eds) ==
  \E i \in 1..Len(eds) : eds[i].source \in Descendants({eds[i].target}, eds)

\* every node is the target of an edge
AllHaveIncoming(nds, eds) ==
  \A k \in 1..Len(nds) : \E i \in 1..Len(eds) : eds[i].target = nds[k].id

(* C23: cycles are neither prevented nor rejected: the admission check accepts
   a connection from a free source port to another node even when that node
   already leads back to the source, and a graph in which every node has an
   incoming edge is valid for validateFlow and saved with the success
   notification. *)
C23_CyclesAdmittedAndValid ==
  mounted =>
    /\ \A s \in NodeIds(nodes), t \in NodeIds(nodes) :
          (/\ s # t
           /\ s \in Descendants({t}, cbEdges)
           /\ <<s, SourceHandle>> \notin SourcePorts(cbEdges))
            => isValidConnection(Connection(s, t), cbEdges)
    /\ (Len(nodes) >= 1 /\ AllHaveIncoming(getFlowData.nodes, getFlowData.edges))
          => /\ validateFlow(getFlowData.nodes, getFlowData.edges).valid
             /\ (lastOp = "save")
                   => notification = [status |-> "success", message |-> MsgSaved]

\* node_0 -> node_1 and node_1 -> node_0 were connected and the flow was saved
C23_Witness ==
  /\ mounted
  /\ lastOp = "save"
  /\ Len(nodes) = 2
  /\ Len(edges) = 2
  /\ Cyclic(edges)
  /\ AllHaveIncoming(nodes, edges)
  /\ notification = [status |-> "success", message |-> MsgSaved]

(* C24: updateNodeText(nodeId, text) gives the node whose id is nodeId the
   text and leaves every other node as it was; the edited node keeps its id,
   its type, its position and its other fields, the nodes keep their number
   and their order, the edges are what they were, and when no node has the id
   the nodes are what they were. *)
C24_UpdateNodeTextFrame ==
  (fnPc = "done") =>
    /\ Len(fnOut.nodes) = Len(fnNodes)
    /\ \A k \in 1..Len(fnNodes) :
          /\ fnOut.nodes[k].id = fnNodes[k].id
          /\ fnOut.nodes[k].type = fnNodes[k].type
          /\ fnOut.nodes[k].position = fnNodes[k].position
          /\ fnOut.nodes[k].selected = fnNodes[k].selected
          /\ fnOut.nodes[k].dragging = fnNodes[k].dragging
          /\ DOMAIN fnOut.nodes[k] = DOMAIN fnNodes[k]
          /\ DOMAIN fnOut.nodes[k].data = DOMAIN fnNodes[k].data
          /\ fnOut.nodes[k].data.text =
                IF fnNodes[k].id = fnArgs.nodeId THEN fnArgs.newText
                ELSE fnNodes[k].data.text
    /\ fnOut.edges = fnEdges
    /\ (fnArgs.nodeId \notin NodeIds(fnNodes)) => fnOut.nodes = fnNodes

\* the second of three nodes got a new text, the other two kept theirs
C24_Witness ==
  /\ fnPc = "done"
  /\ Len(fnNodes) = 3
  /\ Len(fnEdges) = 1
  /\ fnArgs = [nodeId |-> fnNodes[2].id, newText |-> "hello"]
  /\ fnNodes[1].data.text = "hi"
  /\ fnNodes[2].data.text = "hi"
  /\ fnOut.nodes[1].data.text = "hi"
  /\ fnOut.nodes[2].data.text = "hello"
  /\ fnOut.nodes[3] = fnNodes[3]

(* C25: the open page has at most one dismiss timer pending, the one whose
   handle notifTimerRef holds, started with the full NOTIFICATION_DURATION;
   a notification shown while a timer is pending cancels that timer and
   starts its own; the timer that dismisses a notification is the one started
   with it, and nothing else but leaving the page takes a notification away. *)
C25_OneDismissTimerPerPage ==
  [][
     /\ Cardinality(timers') <= 1
     /\ \A tm \in timers' : tm = Timer(notifTimerRef', NOTIFICATION_DURATION)
     /\ (timers # {} /\ timers' # {} /\ timers' # timers) =>
           /\ timers \cap timers' = {}
           /\ notification' # Idle
     /\ (lastOp' = "timeout") =>
           /\ timers = {Timer(notifTimerRef, NOTIFICATION_DURATION)}
           /\ timers' = {}
           /\ notification' = Idle
     /\ (notification # Idle /\ notification' = Idle) =>
           lastOp' \in {"timeout", "unmount"}
    ]_vars

\* a second notification was shown while the timer of the first one was
\* pending: the only timer left is the second one's
C25_Witness ==
  /\ mounted
  /\ lastOp = "save"
  /\ notification # Idle
  /\ notifTimerRef = 2
  /\ timers = {Timer(2, NOTIFICATION_DURATION)}

\* C25 as stated: at most one dismiss timer is pending at any time
C25_OneTimerAtAnyTime == Cardinality(timers) + abandonedTimers <= 1

=============================================================================
